---- MODULE Spec2Model ----
(***************************************************************************)
(* A model of src/scraper.py (FastNewsScraper and main).                   *)
(*                                                                         *)
(* Calendar dates are day ordinals (integers); pd.date_range with freq='D' *)
(* is the ascending run of ordinals from the first to the last day.  A     *)
(* date's ISO string (strftime('%Y-%m-%d')) is the ordinal itself, the     *)
(* conversion being injective.  The output directory is a function from    *)
(* the dates that have a file to the rows of the file, each row holding    *)
(* the text of its CSV fields.  Of the two free-text columns (headline,    *)
(* content) one is kept: both go through the same conversions.             *)
(***************************************************************************)
EXTENDS Integers, Sequences, FiniteSets, TLC

VARIABLES
    cfg,            \* [start, end, size]: START_YEAR-01-01, END_YEAR-12-31, BATCH_SIZE
    date_chunks,    \* self.date_chunks
    raised,         \* the exception that ended the program, or "none"
    pc,             \* position of the main thread
    store,          \* the files of OUTPUT_DIR: date -> rows
    svpc,           \* SpecSave: how many save_batch calls were made
    store0,         \* SpecSave: the files before the first call
    batchA,         \* SpecSave: the argument of the first call
    store1,         \* SpecSave: the files after the first call
    batchB,         \* SpecSave: the argument of the second call
    ci,             \* main: the index of the chunk of the for loop
    di,             \* process_date_chunk: the index of single_date in the chunk
    error_log,      \* self.error_log
    chunk_results,  \* process_date_chunk: chunk_results
    article_urls,   \* process_date_chunk: article_urls
    threads,        \* the worker threads the executor has started
    futures,        \* parallel_article_processing: futures, with each one's state
    cidx,           \* the index of the future the result comprehension is at
    articles,       \* the list the result comprehension has built
    indexFailed,    \* history: the dates whose index fetch failed
    okLinks,        \* history: date -> the links of its index, for the dates
                    \* whose links were all fetched and returned as records
    savedChunks,    \* history: the number of save_batch calls main completed
    delivered,      \* history: the records parallel_article_processing returned
    refChunk,       \* reference: the records of the chunk by the responses alone
    refStore        \* reference: the files by the responses alone

histVars == <<okLinks, savedChunks, delivered, refChunk, refStore>>

runVars == <<ci, di, error_log, chunk_results, article_urls, threads, futures,
             cidx, articles, indexFailed, histVars>>

saveVars == <<svpc, store0, batchA, store1, batchB>>

vars == <<cfg, date_chunks, raised, pc, store, saveVars, runVars>>

----------------------------------------------------------------------------
(* Bounds of the model. *)

MaxDay == 5         \* SpecChunks: first and last day range over 1..MaxDay

MaxSize == 3        \* SpecChunks: BATCH_SIZE ranges over -MaxSize..MaxSize

MaxBatch == 2       \* SpecSave: a batch holds at most MaxBatch records

MaxUrls == 3        \* Spec: an archive index lists at most MaxUrls article links

\* The size of the worker pool, scaled down from the 20 of the source so that
\* an index can list more links than there are workers.
MAX_WORKERS == 2

----------------------------------------------------------------------------
(* Python and numpy arithmetic. *)

Min(a, b) == IF a <= b THEN a ELSE b

\* A division that truncates towards zero, as C's does.
FloorDivTruncating(a, b) ==
    IF b > 0 THEN a \div b
    ELSE -(a \div (-b))

\* Python's a // b (floor division) for a >= 0 and b # 0.
FloorDiv(a, b) ==
    IF b > 0 THEN a \div b
    ELSE -((a + (-b) - 1) \div (-b))

\* pd.date_range(first, last, freq='D').date.tolist()
date_range(first, last) ==
    IF last < first THEN <<>>
    ELSE [i \in 1..(last - first + 1) |-> first + i - 1]

\* div_points with the extras forgotten: every section of Neach_section.
DivPointNoExtras(Ntotal, Nsections, i) ==
    i * (Ntotal \div Nsections)

\* numpy's div_points: the cumulative sum of the section sizes, extras
\* sections of Neach_section + 1 followed by sections of Neach_section.
DivPoint(Ntotal, Nsections, i) ==
    i * (Ntotal \div Nsections) + Min(i, Ntotal % Nsections)

\* np.array_split(ary, Nsections) for Nsections > 0.
array_split(ary, Nsections) ==
    [i \in 1..Nsections |->
        SubSeq(ary, DivPoint(Len(ary), Nsections, i - 1) + 1,
                    DivPoint(Len(ary), Nsections, i))]

\* The number of sections without the "+ 1" (at least one section).
NumSectionsNoPlusOne(n, size) ==
    IF FloorDiv(n, size) = 0 THEN 1 ELSE FloorDiv(n, size)

\* The number of sections create_date_chunks asks for:
\* len(dates) // BATCH_SIZE + 1.
NumSections(n, size) == FloorDiv(n, size) + 1

\* FastNewsScraper.create_date_chunks with the configuration as parameters:
\* the exception it raises ("none" when it returns) and the chunks.
create_date_chunks(first, last, size) ==
    LET dates == date_range(first, last) IN
    IF size = 0 THEN [raised |-> "ZeroDivisionError", chunks |-> <<>>]
    ELSE IF NumSections(Len(dates), size) <= 0
         THEN [raised |-> "ValueError", chunks |-> <<>>]
         ELSE [raised |-> "none",
               chunks |-> array_split(dates, NumSections(Len(dates), size))]

----------------------------------------------------------------------------
(* Records, DataFrames and the CSV files of OUTPUT_DIR. *)

Dates == {1, 2}

Urls == {"u1", "u2"}

\* The text process_article extracts; '' is its default for a missing element.
Contents == {"", "a"}

\* The value pandas gives an empty CSV field.
NaN == "<NaN>"

\* OUTPUT_DIR without any file.
EmptyDir == << >>

\* The dicts process_article returns.
Records == [date : Dates, url : Urls, content : Contents]

\* DataFrame.to_csv: a missing value is written as the empty field.
to_csv_field(v) == IF v = NaN THEN "" ELSE v

\* pd.read_csv: the empty field is read as a missing value.
read_csv_field(t) == IF t = "" THEN NaN ELSE t

to_csv(df) == [i \in 1..Len(df) |-> [df[i] EXCEPT !.content = to_csv_field(@)]]

read_csv(rows) ==
    [i \in 1..Len(rows) |-> [rows[i] EXCEPT !.content = read_csv_field(@)]]

\* The rows of df at the indices in kept, in their order in df (boolean
\* indexing).
KeepRows(df, kept) ==
    LET idx(k) == CHOOSE i \in kept : Cardinality({j \in kept : j < i}) = k - 1
    IN [k \in 1..Cardinality(kept) |-> df[idx(k)]]

\* drop_duplicates('url', keep='last')
drop_duplicates_keep_last(df) ==
    KeepRows(df, {i \in 1..Len(df) :
                    \A j \in (i + 1)..Len(df) : df[j].url # df[i].url})

\* drop_duplicates('url', keep=False): every row of a repeated url is dropped.
drop_duplicates_keep_none(df) ==
    KeepRows(df, {i \in 1..Len(df) :
                    \A j \in 1..Len(df) : j # i => df[j].url # df[i].url})

\* DataFrame.drop_duplicates('url'): keep='first' is the default.
drop_duplicates(df) ==
    KeepRows(df, {i \in 1..Len(df) :
                    \A j \in 1..(i - 1) : df[j].url # df[i].url})

\* df[df['date'] == d]
daily(df, d) ==
    KeepRows(df, {i \in 1..Len(df) : df[i].date = d})

\* df['date'].unique(), as a set: each date's file is written independently
\* of the others, so the order of the loop does not show in the result.
unique_dates(df) == {df[i].date : i \in 1..Len(df)}

\* A save_batch that writes the new group over an existing file.
save_batch_overwrite(files, batch_data) ==
    [d \in DOMAIN files \cup unique_dates(batch_data) |->
        IF d \in unique_dates(batch_data)
        THEN to_csv(daily(batch_data, d))
        ELSE files[d]]

\* FastNewsScraper.save_batch: the files of OUTPUT_DIR after the call.
save_batch(files, batch_data) ==
    IF batch_data = <<>> THEN files
    ELSE [d \in DOMAIN files \cup unique_dates(batch_data) |->
            IF d \notin unique_dates(batch_data) THEN files[d]
            ELSE IF d \in DOMAIN files
                 THEN to_csv(drop_duplicates(
                          read_csv(files[d]) \o daily(batch_data, d)))
                 ELSE to_csv(daily(batch_data, d))]

----------------------------------------------------------------------------
(* Construction: FastNewsScraper.__init__ as called by main. *)

SaveIdle ==
    /\ svpc = "idle" /\ store0 = EmptyDir /\ batchA = <<>>
    /\ store1 = EmptyDir /\ batchB = <<>>

\* The state __init__ leaves: no chunk entered, an empty error_log.
RunIdle ==
    /\ ci = 1 /\ di = 1
    /\ error_log = {}
    /\ chunk_results = <<>> /\ article_urls = <<>>
    /\ threads = 0 /\ futures = <<>>
    /\ cidx = 1 /\ articles = <<>>
    /\ indexFailed = {}
    /\ okLinks = << >>
    /\ savedChunks = 0
    /\ delivered = {}
    /\ refChunk = <<>>
    /\ refStore = EmptyDir

Construct ==
    /\ pc = "init"
    /\ LET r == create_date_chunks(cfg.start, cfg.end, cfg.size) IN
        /\ date_chunks' = r.chunks
        /\ raised' = r.raised
        /\ pc' = IF r.raised = "none" THEN "chunk_loop" ELSE "crashed"
    /\ UNCHANGED <<cfg, store>>
    /\ UNCHANGED saveVars
    /\ UNCHANGED runVars

ChunkConfigs ==
    [start : 1..MaxDay, end : 1..MaxDay, size : (-MaxSize)..MaxSize]

InitChunks ==
    /\ cfg \in ChunkConfigs
    /\ date_chunks = <<>>
    /\ raised = "none"
    /\ pc = "init"
    /\ store = EmptyDir
    /\ SaveIdle
    /\ RunIdle

NextChunks == Construct

SpecChunks == InitChunks /\ [][NextChunks]_vars

----------------------------------------------------------------------------
(* SpecSave: save_batch called twice with arbitrary batches, on an output *)
(* directory that is empty or holds what an earlier save_batch left.       *)

Batches == UNION {[1..n -> Records] : n \in 0..MaxBatch}

\* The output directory main finds (os.makedirs(OUTPUT_DIR, exist_ok=True)):
\* empty, or with the file an earlier save_batch of one record left.  Dates
\* and urls are interchangeable, so the record is of the first of each.
InitStores ==
    {EmptyDir} \cup
    {save_batch(EmptyDir, <<r>>) : r \in {x \in Records : x.date = 1 /\ x.url = "u1"}}

SaveBatchCall ==
    /\ svpc \in {"start", "afterA"}
    /\ \E b \in Batches :
        /\ store' = save_batch(store, b)
        /\ IF svpc = "start"
           THEN /\ batchA' = b
                /\ store1' = store'
                /\ svpc' = "afterA"
                /\ UNCHANGED batchB
           ELSE /\ batchB' = b
                /\ svpc' = "afterB"
                /\ UNCHANGED <<batchA, store1>>
    /\ UNCHANGED <<cfg, date_chunks, raised, pc, store0>>
    /\ UNCHANGED runVars

InitSave ==
    /\ cfg = [start |-> 1, end |-> 2, size |-> 1]
    /\ date_chunks = <<>>
    /\ raised = "none"
    /\ pc = "save_batch"
    /\ store \in InitStores
    /\ store0 = store
    /\ store1 = store
    /\ batchA = <<>>
    /\ batchB = <<>>
    /\ svpc = "start"
    /\ RunIdle

NextSave == SaveBatchCall

SpecSave == InitSave /\ [][NextSave]_vars

----------------------------------------------------------------------------
(* Spec: main, from an empty output directory.  The main thread runs the   *)
(* loops of main and process_date_chunk; the workers of the executor run   *)
(* process_article.                                                        *)

\* The configurations of a run: two days in chunks of one date (with the
\* empty chunk array_split adds), and two days in one chunk.
RunConfigs ==
    {[start |-> 1, end |-> 2, size |-> 1], [start |-> 1, end |-> 2, size |-> 3]}

\* The lists of article links an archive index page can hold.
UrlLists == UNION {[1..n -> Urls] : n \in 0..MaxUrls}

\* What the GET of an archive index can come to: no response (timeout,
\* network error), a page that cannot be parsed, or a page with its article
\* links, under status 200 or under another status.
IndexResponses ==
    {[kind |-> k, links |-> <<>>] : k \in {"timeout", "error", "parse_error"}}
    \cup {[kind |-> k, links |-> l] : k \in {"ok", "non200"}, l \in UrlLists}

\* What the GET of an article can come to: status 200, another status, or
\* an exception inside the try block of process_article (a timeout, a network
\* error, a page that cannot be parsed: all end in the one except clause).
ArticleResponses == {"ok", "non200", "timeout"}

\* The text of the article behind a url.
PageContent(url) == IF url = "u1" THEN "a" ELSE ""

\* Python's None.
None == [none |-> TRUE]

\* A fetch_archive_links that does not test the status code.
fetch_archive_links_any_status(response) == response.links

\* FastNewsScraper.fetch_archive_links: the links on status 200, [] on any
\* other status and on any exception.
fetch_archive_links(response) ==
    IF response.kind = "ok" THEN response.links ELSE <<>>

\* A process_article that answers a failed fetch with a record of the error.
process_article_error_record(url, current_date, response) ==
    [date |-> current_date, url |-> url,
     content |-> IF response = "ok" THEN PageContent(url) ELSE ""]

\* process_article: the record on status 200, None on any other status (the
\* function falls off its end) and on any exception.
process_article(url, current_date, response) ==
    IF response = "ok"
    THEN [date |-> current_date, url |-> url, content |-> PageContent(url)]
    ELSE None

CurrentChunk == date_chunks[ci]

single_date == CurrentChunk[di]

Running == Cardinality({k \in 1..Len(futures) : futures[k].state = "running"})

AllDone == \A k \in 1..Len(futures) : futures[k].state \notin {"pending", "running"}

\* Every GET of the date returned status 200 and every page was parsed.
AllSucceeded == \A k \in 1..Len(futures) : futures[k].response = "ok"

\* The records of the responses of the date, in the order of the requests
\* (the order of article_urls), whatever the order the responses came in.
RecordsInRequestOrder ==
    KeepRows([k \in 1..Len(futures) |->
                 process_article(futures[k].url, single_date, futures[k].response)],
             {k \in 1..Len(futures) : futures[k].response = "ok"})

PendingFuture(url) ==
    [url |-> url, state |-> "pending", response |-> "none", result |-> None]

\* main: the for loop takes the next chunk and calls process_date_chunk.
EnterChunk ==
    /\ pc = "chunk_loop"
    /\ ci <= Len(date_chunks)
    /\ chunk_results' = <<>>
    /\ di' = 1
    /\ pc' = "date_loop"
    /\ UNCHANGED <<cfg, date_chunks, raised, store, ci, error_log, article_urls,
                   threads, futures, cidx, articles, indexFailed>>
    /\ UNCHANGED saveVars
    /\ UNCHANGED histVars

\* main: the for loop is exhausted.
Finish ==
    /\ pc = "chunk_loop"
    /\ ci > Len(date_chunks)
    /\ pc' = "done"
    /\ UNCHANGED <<cfg, date_chunks, raised, store>>
    /\ UNCHANGED saveVars
    /\ UNCHANGED runVars

\* A main whose loop goes on to the next chunk without calling save_batch.
NextDateWithoutSave ==
    /\ pc = "date_loop"
    /\ IF di > Len(CurrentChunk)
       THEN pc' = "chunk_loop" /\ ci' = ci + 1 /\ UNCHANGED di
       ELSE IF single_date \in error_log
            THEN pc' = "date_loop" /\ di' = di + 1 /\ UNCHANGED ci
            ELSE pc' = "fetch_index" /\ UNCHANGED <<ci, di>>
    /\ UNCHANGED <<cfg, date_chunks, raised, store, error_log, chunk_results,
                   article_urls, threads, futures, cidx, articles, indexFailed>>
    /\ UNCHANGED saveVars
    /\ UNCHANGED histVars

\* process_date_chunk: the for loop over the dates of the chunk, with its
\* test of error_log; at the end of the chunk chunk_results is returned.
NextDate ==
    /\ pc = "date_loop"
    /\ IF di > Len(CurrentChunk)
       THEN pc' = "save" /\ UNCHANGED di
       ELSE IF single_date \in error_log
            THEN pc' = "date_loop" /\ di' = di + 1
            ELSE pc' = "fetch_index" /\ UNCHANGED di
    /\ UNCHANGED <<cfg, date_chunks, raised, store, ci, error_log, chunk_results,
                   article_urls, threads, futures, cidx, articles, indexFailed>>
    /\ UNCHANGED saveVars
    /\ UNCHANGED histVars

\* fetch_archive_links(single_date), then the start of
\* parallel_article_processing: a new executor without threads.
FetchArchiveLinks ==
    /\ pc = "fetch_index"
    /\ \E response \in IndexResponses :
        /\ article_urls' = fetch_archive_links(response)
        /\ indexFailed' = IF response.kind = "ok" THEN indexFailed
                          ELSE indexFailed \cup {single_date}
        /\ pc' = IF fetch_archive_links(response) = <<>> THEN "collect" ELSE "submit"
    /\ threads' = 0
    /\ futures' = <<>>
    /\ cidx' = 1
    /\ articles' = <<>>
    /\ UNCHANGED <<cfg, date_chunks, raised, store, ci, di, error_log, chunk_results>>
    /\ UNCHANGED saveVars
    /\ UNCHANGED histVars

\* executor.submit(process_article, url): the work item is queued and, while
\* fewer than MAX_WORKERS threads exist, a thread is started.
Submit ==
    /\ pc = "submit"
    /\ Len(futures) < Len(article_urls)
    /\ futures' = Append(futures, PendingFuture(article_urls[Len(futures) + 1]))
    /\ threads' = IF threads < MAX_WORKERS THEN threads + 1 ELSE threads
    /\ pc' = IF Len(futures) + 1 = Len(article_urls) THEN "collect" ELSE "submit"
    /\ UNCHANGED <<cfg, date_chunks, raised, store, ci, di, error_log, chunk_results,
                   article_urls, cidx, articles, indexFailed>>
    /\ UNCHANGED saveVars
    /\ UNCHANGED histVars

\* executor.submit raises: the work item is queued but the thread cannot be
\* started (RuntimeError: can't start new thread).
SubmitRaises ==
    /\ pc = "submit"
    /\ Len(futures) < Len(article_urls)
    /\ threads < MAX_WORKERS
    /\ futures' = Append(futures, PendingFuture(article_urls[Len(futures) + 1]))
    /\ pc' = "pool_error"
    /\ UNCHANGED <<cfg, date_chunks, raised, store, ci, di, error_log, chunk_results,
                   article_urls, threads, cidx, articles, indexFailed>>
    /\ UNCHANGED saveVars
    /\ UNCHANGED histVars

\* A worker without the bound of the pool.
WorkerStartUnbounded ==
    /\ pc \in {"submit", "collect", "pool_error"}
    /\ \E k \in 1..Len(futures) :
        /\ futures[k].state = "pending"
        /\ \A j \in 1..(k - 1) : futures[j].state # "pending"
        /\ futures' = [futures EXCEPT ![k].state = "running"]
    /\ UNCHANGED <<cfg, date_chunks, raised, pc, store, ci, di, error_log,
                   chunk_results, article_urls, threads, cidx, articles, indexFailed>>
    /\ UNCHANGED saveVars
    /\ UNCHANGED histVars

\* A worker thread that is free takes the oldest work item of the queue and
\* calls process_article.
WorkerStart ==
    /\ pc \in {"submit", "collect", "pool_error"}
    /\ Running < threads
    /\ \E k \in 1..Len(futures) :
        /\ futures[k].state = "pending"
        /\ \A j \in 1..(k - 1) : futures[j].state # "pending"
        /\ futures' = [futures EXCEPT ![k].state = "running"]
    /\ UNCHANGED <<cfg, date_chunks, raised, pc, store, ci, di, error_log,
                   chunk_results, article_urls, threads, cidx, articles, indexFailed>>
    /\ UNCHANGED saveVars
    /\ UNCHANGED histVars

\* process_article ends: the GET returned or raised, the future is set.
WorkerFinish ==
    /\ \E k \in 1..Len(futures), response \in ArticleResponses :
        /\ futures[k].state = "running"
        /\ futures' = [futures EXCEPT
              ![k] = [url |-> @.url, state |-> "done", response |-> response,
                      result |-> process_article(@.url, single_date, response)]]
    /\ UNCHANGED <<cfg, date_chunks, raised, pc, store, ci, di, error_log,
                   chunk_results, article_urls, threads, cidx, articles, indexFailed>>
    /\ UNCHANGED saveVars
    /\ UNCHANGED histVars

\* A comprehension that puts each result in front of the earlier ones.
CollectedPrepend(list, result) == IF result # None THEN <<result>> \o list ELSE list

\* [f.result() for f in futures if f.result()]: one element of it.
Collected(list, result) == IF result # None THEN Append(list, result) ELSE list

\* A collection in the order of completion (as_completed): any finished
\* future is taken next.
CollectResultAsCompleted ==
    /\ pc = "collect"
    /\ cidx <= Len(futures)
    /\ \E k \in 1..Len(futures) :
        /\ futures[k].state = "done"
        /\ articles' = Collected(articles, futures[k].result)
        /\ futures' = [futures EXCEPT ![k].state = "collected"]
    /\ cidx' = cidx + 1
    /\ UNCHANGED <<cfg, date_chunks, raised, pc, store, ci, di, error_log,
                   chunk_results, article_urls, threads, indexFailed>>
    /\ UNCHANGED saveVars
    /\ UNCHANGED histVars

\* The comprehension waits for the future it is at and takes its result.
CollectResult ==
    /\ pc = "collect"
    /\ cidx <= Len(futures)
    /\ futures[cidx].state = "done"
    /\ articles' = Collected(articles, futures[cidx].result)
    /\ cidx' = cidx + 1
    /\ UNCHANGED <<cfg, date_chunks, raised, pc, store, ci, di, error_log,
                   chunk_results, article_urls, threads, futures, indexFailed>>
    /\ UNCHANGED saveVars
    /\ UNCHANGED histVars

\* The with block is left (shutdown(wait=True)) and the list is returned.
ReturnArticles ==
    /\ pc = "collect"
    /\ cidx > Len(futures)
    /\ AllDone
    /\ pc' = "returned"
    /\ UNCHANGED <<cfg, date_chunks, raised, store>>
    /\ UNCHANGED saveVars
    /\ UNCHANGED runVars

\* A process_date_chunk that writes the records of each date as soon as they
\* are returned.
ExtendResultsSavesEarly ==
    /\ pc = "returned"
    /\ chunk_results' = chunk_results \o articles
    /\ store' = save_batch(store, articles)
    /\ di' = di + 1
    /\ article_urls' = <<>>
    /\ threads' = 0
    /\ futures' = <<>>
    /\ cidx' = 1
    /\ articles' = <<>>
    /\ pc' = "date_loop"
    /\ okLinks' = IF article_urls # <<>> /\ AllSucceeded
                  THEN [d \in DOMAIN okLinks \cup {single_date} |->
                          IF d = single_date THEN article_urls ELSE okLinks[d]]
                  ELSE okLinks
    /\ delivered' = delivered \cup {articles[i] : i \in 1..Len(articles)}
    /\ refChunk' = refChunk \o RecordsInRequestOrder
    /\ UNCHANGED <<cfg, date_chunks, raised, ci, error_log, indexFailed,
                   savedChunks, refStore>>
    /\ UNCHANGED saveVars

\* process_date_chunk: chunk_results.extend(articles), and the next date.
ExtendResults ==
    /\ pc = "returned"
    /\ chunk_results' = chunk_results \o articles
    /\ di' = di + 1
    /\ article_urls' = <<>>
    /\ threads' = 0
    /\ futures' = <<>>
    /\ cidx' = 1
    /\ articles' = <<>>
    /\ pc' = "date_loop"
    /\ okLinks' = IF article_urls # <<>> /\ AllSucceeded
                  THEN [d \in DOMAIN okLinks \cup {single_date} |->
                          IF d = single_date THEN article_urls ELSE okLinks[d]]
                  ELSE okLinks
    /\ delivered' = delivered \cup {articles[i] : i \in 1..Len(articles)}
    /\ refChunk' = refChunk \o RecordsInRequestOrder
    /\ UNCHANGED <<cfg, date_chunks, raised, store, ci, error_log, indexFailed,
                   savedChunks, refStore>>
    /\ UNCHANGED saveVars

\* An except clause that assigns the date to error_log in place of adding it.
HandleExceptionOverwrites ==
    /\ pc = "pool_error"
    /\ threads = 0 \/ AllDone
    /\ error_log' = {single_date}
    /\ di' = di + 1
    /\ article_urls' = <<>>
    /\ threads' = 0
    /\ futures' = <<>>
    /\ cidx' = 1
    /\ articles' = <<>>
    /\ pc' = "date_loop"
    /\ UNCHANGED <<cfg, date_chunks, raised, store, ci, chunk_results, indexFailed>>
    /\ UNCHANGED saveVars
    /\ UNCHANGED histVars

\* An except clause reached only once every queued work item has run, also
\* when the executor has no thread to run them.
HandleExceptionWaitsAll ==
    /\ pc = "pool_error"
    /\ AllDone
    /\ error_log' = error_log \cup {single_date}
    /\ di' = di + 1
    /\ article_urls' = <<>>
    /\ threads' = 0
    /\ futures' = <<>>
    /\ cidx' = 1
    /\ articles' = <<>>
    /\ pc' = "date_loop"
    /\ UNCHANGED <<cfg, date_chunks, raised, store, ci, chunk_results, indexFailed>>
    /\ UNCHANGED saveVars
    /\ UNCHANGED histVars

\* An except clause that runs without the wait of shutdown(wait=True).
HandleExceptionNoWait ==
    /\ pc = "pool_error"
    /\ error_log' = error_log \cup {single_date}
    /\ di' = di + 1
    /\ article_urls' = <<>>
    /\ threads' = 0
    /\ futures' = <<>>
    /\ cidx' = 1
    /\ articles' = <<>>
    /\ pc' = "date_loop"
    /\ UNCHANGED <<cfg, date_chunks, raised, store, ci, chunk_results, indexFailed>>
    /\ UNCHANGED saveVars
    /\ UNCHANGED histVars

\* The exception of submit leaves the with block (shutdown(wait=True): the
\* threads that exist drain the queue) and reaches the except clause of
\* process_date_chunk, which adds the date to error_log.
HandleException ==
    /\ pc = "pool_error"
    /\ threads = 0 \/ AllDone
    /\ error_log' = error_log \cup {single_date}
    /\ di' = di + 1
    /\ article_urls' = <<>>
    /\ threads' = 0
    /\ futures' = <<>>
    /\ cidx' = 1
    /\ articles' = <<>>
    /\ pc' = "date_loop"
    /\ UNCHANGED <<cfg, date_chunks, raised, store, ci, chunk_results, indexFailed>>
    /\ UNCHANGED saveVars
    /\ UNCHANGED histVars

\* main: scraper.save_batch(batch_data), then the next chunk.
SaveBatch ==
    /\ pc = "save"
    /\ store' = save_batch(store, chunk_results)
    /\ ci' = ci + 1
    /\ chunk_results' = <<>>
    /\ pc' = "chunk_loop"
    /\ savedChunks' = savedChunks + 1
    /\ refStore' = save_batch(refStore, refChunk)
    /\ refChunk' = <<>>
    /\ UNCHANGED <<cfg, date_chunks, raised, di, error_log, article_urls, threads,
                   futures, cidx, articles, indexFailed, okLinks, delivered>>
    /\ UNCHANGED saveVars

Init ==
    /\ cfg \in RunConfigs
    /\ date_chunks = <<>>
    /\ raised = "none"
    /\ pc = "init"
    /\ store = EmptyDir
    /\ SaveIdle
    /\ RunIdle

Next ==
    \/ Construct
    \/ EnterChunk
    \/ Finish
    \/ NextDate
    \/ FetchArchiveLinks
    \/ Submit
    \/ SubmitRaises
    \/ WorkerStart
    \/ WorkerFinish
    \/ CollectResult
    \/ ReturnArticles
    \/ ExtendResults
    \/ HandleException
    \/ SaveBatch

Spec == Init /\ [][Next]_vars

\* The steps of the main thread.
MainThread ==
    \/ Construct
    \/ EnterChunk
    \/ Finish
    \/ NextDate
    \/ FetchArchiveLinks
    \/ Submit
    \/ SubmitRaises
    \/ CollectResult
    \/ ReturnArticles
    \/ ExtendResults
    \/ HandleException
    \/ SaveBatch

\* The run of two chunks of one date each (and the empty chunk array_split
\* adds).
InitFair ==
    /\ Init
    /\ cfg.size = 1

\* The run under a fair scheduler: the main thread runs when it can, a free
\* worker thread takes the work that waits, and every GET (timeout=10,
\* timeout=15) returns or times out.
FairSpec ==
    /\ InitFair
    /\ [][Next]_vars
    /\ WF_vars(MainThread)
    /\ WF_vars(WorkerStart)
    /\ WF_vars(WorkerFinish)

----------------------------------------------------------------------------
(* Claims about create_date_chunks (SpecChunks). *)

RECURSIVE Concat(_)
Concat(chunks) ==
    IF chunks = <<>> THEN <<>> ELSE Head(chunks) \o Concat(Tail(chunks))

ValidConfig == cfg.end >= cfg.start /\ cfg.size > 0

\* C7: for a valid start, end and chunk size, the chunks taken in order are
\* every date from start to end, ascending, none omitted, none twice.
C7_ChunksCoverRange ==
    (pc # "init" /\ ValidConfig) =>
        /\ pc = "chunk_loop"
        /\ Len(Concat(date_chunks)) = cfg.end - cfg.start + 1
        /\ \A i \in 1..Len(Concat(date_chunks)) :
              Concat(date_chunks)[i] = cfg.start + i - 1

\* C7's case: several chunks of unequal lengths were produced.
C7_Witness ==
    /\ pc = "chunk_loop" /\ ValidConfig
    /\ Len(date_chunks) >= 2
    /\ \E i, j \in 1..Len(date_chunks) :
          Len(date_chunks[i]) > Len(date_chunks[j]) /\ Len(date_chunks[j]) > 0

\* C8: for a valid start, end and chunk size, no chunk holds more than
\* chunk_size dates.
C8_ChunkSizeBound ==
    (pc # "init" /\ ValidConfig) =>
        /\ pc = "chunk_loop"
        /\ \A i \in 1..Len(date_chunks) : Len(date_chunks[i]) <= cfg.size

\* C8's case: a range longer than chunk_size was split and a chunk is full.
C8_Witness ==
    /\ pc = "chunk_loop" /\ ValidConfig
    /\ cfg.end - cfg.start + 1 > cfg.size
    /\ \E i \in 1..Len(date_chunks) : Len(date_chunks[i]) = cfg.size

\* C9 as claimed: with the end before the start, or a chunk size of zero or
\* less, the partitioner fails with ConfigurationError and produces no chunks.
C9_ConfigurationError ==
    (pc # "init" /\ (cfg.end < cfg.start \/ cfg.size <= 0)) =>
        /\ raised = "ConfigurationError"
        /\ date_chunks = <<>>

\* C9 amended: the partitioner never raises ConfigurationError; a chunk size
\* of zero fails with ZeroDivisionError, a negative chunk size over a
\* non-empty range fails with ValueError, both without chunks; an empty range
\* (end before start) with a non-zero chunk size does not fail and yields one
\* empty chunk.
C9_InvalidConfigOutcome ==
    (pc # "init") =>
        /\ raised # "ConfigurationError"
        /\ (cfg.size = 0) =>
              (pc = "crashed" /\ raised = "ZeroDivisionError" /\ date_chunks = <<>>)
        /\ (cfg.size < 0 /\ cfg.end >= cfg.start) =>
              (pc = "crashed" /\ raised = "ValueError" /\ date_chunks = <<>>)
        /\ (cfg.size # 0 /\ cfg.end < cfg.start) =>
              (pc = "chunk_loop" /\ raised = "none" /\ date_chunks = << <<>> >>)

\* C9's case: an end before the start went through without any failure.
C9_Witness ==
    /\ pc = "chunk_loop" /\ cfg.end < cfg.start /\ cfg.size > 0
    /\ raised = "none" /\ date_chunks = << <<>> >>

----------------------------------------------------------------------------
(* Claims about save_batch (SpecSave). *)

UrlsOf(rows) == {rows[i].url : i \in 1..Len(rows)}

\* The set of urls of each date's file.
UrlSets(files) == [d \in DOMAIN files |-> UrlsOf(files[d])]

\* The files before the latest save_batch call, and its argument.
LastBefore == IF svpc = "afterB" THEN store1 ELSE store0

LastBatch == IF svpc = "afterB" THEN batchB ELSE batchA

\* The dates whose existing file the latest call merged a new group into.
MergedDates ==
    IF svpc = "start" THEN {}
    ELSE DOMAIN LastBefore \cap unique_dates(LastBatch)

\* pd.concat([existing, daily_df]) of the latest call for date d.
Concatenation(d) == read_csv(LastBefore[d]) \o daily(LastBatch, d)

FirstIndex(df, u) == CHOOSE i \in 1..Len(df) :
    df[i].url = u /\ \A j \in 1..(i - 1) : df[j].url # u

LastIndex(df, u) == CHOOSE i \in 1..Len(df) :
    df[i].url = u /\ \A j \in (i + 1)..Len(df) : df[j].url # u

\* C1 as claimed: after any sequence of save_batch calls no file holds two
\* rows with the same url, a first write of a batch that repeats a url
\* included.
C1_NoDuplicateUrls ==
    \A d \in DOMAIN store :
        \A i, j \in 1..Len(store[d]) :
            i # j => store[d][i].url # store[d][j].url

C4_SaveTwiceSameAsOnce ==
    (svpc = "afterB" /\ store0 = EmptyDir /\ batchA = batchB) =>
        store = store1

\* Batches A and B carry no conflicting content for a url of a date.
NoConflict(A, B) ==
    \A i \in 1..Len(A), j \in 1..Len(B) :
        (A[i].date = B[j].date /\ A[i].url = B[j].url) =>
            A[i].content = B[j].content

\* C5: save_batch(A) then save_batch(B), A and B without conflicting content,
\* leaves for every date the set of urls that one save_batch of A followed by
\* B leaves, whatever the files were before.
C5_UnionLaw ==
    (svpc = "afterB" /\ NoConflict(batchA, batchB)) =>
        UrlSets(store) = UrlSets(save_batch(store0, batchA \o batchB))

\* C5's case: A and B bring different urls to a date that had a file.
C5_Witness ==
    /\ svpc = "afterB" /\ NoConflict(batchA, batchB)
    /\ \E d \in DOMAIN store0 :
          /\ UrlsOf(daily(batchA, d)) # {}
          /\ UrlsOf(daily(batchB, d)) # {}
          /\ UrlsOf(daily(batchA, d)) # UrlsOf(daily(batchB, d))

\* The urls of date d among the records passed to the calls made so far.
PassedUrls(d) == UrlsOf(daily(batchA, d)) \cup UrlsOf(daily(batchB, d))

InitialUrls(d) == IF d \in DOMAIN store0 THEN UrlsOf(store0[d]) ELSE {}

\* C6: after any sequence of save_batch calls, a date's file holds exactly
\* the urls it held initially and the urls of the records of that date
\* passed to the calls; a date has a file exactly when that set is not empty.
C6_StoreHoldsUnion ==
    /\ DOMAIN store = {d \in Dates : InitialUrls(d) \cup PassedUrls(d) # {}}
    /\ \A d \in DOMAIN store :
          UrlsOf(store[d]) = InitialUrls(d) \cup PassedUrls(d)

\* C6's case: a file that existed was merged into twice, the second batch
\* repeating a url and none of the three sources holding every url.
C6_Witness ==
    /\ svpc = "afterB"
    /\ \E d \in DOMAIN store0 :
          /\ UrlsOf(daily(batchA, d)) # {}
          /\ Len(daily(batchB, d)) > Cardinality(UrlsOf(daily(batchB, d)))
          /\ UrlsOf(store[d]) # InitialUrls(d)
          /\ UrlsOf(store[d]) # UrlsOf(daily(batchB, d))

----------------------------------------------------------------------------
(* Claims about the run (Spec). *)

\* C2 as claimed: a date whose index fetch failed (network error, timeout,
\* non-200 status, parse failure) is added to error_log by
\* process_date_chunk: whenever no date is being fetched, and so at the end
\* of the run, every such date is in it.
C2_FailedIndexDatesLogged ==
    (pc \in {"date_loop", "save", "chunk_loop", "done"}) =>
        indexFailed \subseteq error_log

\* The futures whose GET returned status 200 and whose parsing raised nothing.
Succeeded == {k \in 1..Len(futures) : futures[k].response = "ok"}

\* C10: parallel_article_processing returns exactly one record for each
\* submitted url whose fetch succeeded and nothing (no None, no record of an
\* error) for a url whose fetch timed out, raised or returned another status:
\* as many records as successes, each of the date and of a url that succeeded.
C10_OneRecordPerSuccess ==
    (pc = "returned") =>
        /\ Len(articles) = Cardinality(Succeeded)
        /\ \A i \in 1..Len(articles) :
              /\ articles[i] # None
              /\ articles[i].date = single_date
        /\ \A u \in Urls :
              Cardinality({i \in 1..Len(articles) : articles[i].url = u}) =
              Cardinality({k \in Succeeded : futures[k].url = u})

\* C10's case: of the urls of one date one succeeded, one returned another
\* status and one timed out.
C10_Witness ==
    /\ pc = "returned"
    /\ \E k1, k2, k3 \in 1..Len(futures) :
          /\ futures[k1].response = "ok"
          /\ futures[k2].response = "non200"
          /\ futures[k3].response = "timeout"

\* C11: in every reachable state, under every interleaving of the workers,
\* at most MAX_WORKERS calls of process_article are running, however many
\* urls the date has.
C11_WorkerBound == Running <= MAX_WORKERS

\* C11's case: every worker is busy while a submitted url still waits.
C11_Witness ==
    /\ Running = MAX_WORKERS
    /\ \E k \in 1..Len(futures) : futures[k].state = "pending"

\* C12: when the index request times out, raises, returns another status than
\* 200 or cannot be parsed, fetch_archive_links returns the empty list, raises
\* nothing to its caller (which goes on into parallel_article_processing) and
\* leaves error_log as it was.
C12_FailedIndexFetchIsEmpty ==
    [][(pc = "fetch_index" /\ indexFailed' # indexFailed) =>
          /\ article_urls' = <<>>
          /\ error_log' = error_log
          /\ raised' = "none"
          /\ pc' = "collect"]_vars

\* C12's case: the index fetch of the date at hand failed and the caller
\* holds an empty list of urls.
C12_Witness ==
    /\ pc = "collect"
    /\ single_date \in indexFailed
    /\ article_urls = <<>>
    /\ single_date \notin error_log

\* This step issues the index fetch of date d.
IndexFetchIssued(d) ==
    /\ pc = "fetch_index" /\ pc' # "fetch_index"
    /\ single_date = d

\* This step starts an article fetch of date d.
ArticleFetchIssued(d) ==
    /\ \E k \in 1..Len(futures) :
          /\ futures[k].state = "pending"
          /\ k <= Len(futures')
          /\ futures'[k].state = "running"
    /\ single_date = d

\* C13: a date that is in error_log stays in it for the rest of the run, and
\* from then on no index fetch and no article fetch is issued for that date.
C13_ErroredDateStaysSkipped ==
    [][\A d \in error_log :
          /\ d \in error_log'
          /\ ~IndexFetchIssued(d)
          /\ ~ArticleFetchIssued(d)]_vars

\* C13's case: with an earlier date in error_log, the loop is submitting the
\* article fetches of a later date.
C13_Witness ==
    /\ error_log # {}
    /\ pc = "submit"
    /\ Len(futures) > 0
    /\ single_date \notin error_log

\* C14 as claimed: after a complete run from an empty output directory, a
\* date whose index fetch failed has no file, and a date whose index returned
\* urls that were all fetched has a file with exactly one row per url the
\* index returned.
C14_EndToEndFiles ==
    (pc = "done") =>
        /\ \A d \in indexFailed : d \notin DOMAIN store
        /\ \A d \in DOMAIN okLinks :
              /\ d \in DOMAIN store
              /\ UrlsOf(store[d]) = {okLinks[d][i] : i \in 1..Len(okLinks[d])}
              /\ \A i, j \in 1..Len(store[d]) :
                    i # j => store[d][i].url # store[d][j].url

\* C15: under fair scheduling, with every network call returning or timing
\* out, the run reaches Done with every chunk processed, whatever index and
\* article fetches fail.
C15_RunReachesDone ==
    <>(pc = "done" /\ savedChunks = Len(date_chunks))

\* C15's case: the run is done although the index fetch of one date failed
\* and the processing of another raised.
C15_Witness ==
    /\ pc = "done"
    /\ indexFailed # {}
    /\ error_log # {}

\* C16: the rows of every date's file are a function of the responses alone:
\* at every moment the store equals the store computed from the responses in
\* the order of the requests, whatever the interleaving of the workers and the
\* order in which the fetches completed; so two runs with the same responses
\* end with the same rows in the same order.
C16_StoreDeterminedByResponses ==
    /\ store = refStore
    /\ pc = "save" => chunk_results = refChunk

\* C16's case: the run is done and a file holds the records of two articles
\* that were fetched concurrently.
C16_Witness ==
    /\ pc = "done"
    /\ \E d \in DOMAIN store :
          /\ Len(store[d]) >= 2
          /\ store[d][1].url # store[d][2].url

\* C20: the list parallel_article_processing returns holds the records of
\* the successful fetches in the order of the input url list, whatever the
\* order the fetches completed in.
C20_ReturnedInSubmissionOrder ==
    (pc = "returned") => articles = RecordsInRequestOrder

\* C20's case: a list of two records of different urls is returned, and a
\* fetch of the same call failed.
C20_Witness ==
    /\ pc = "returned"
    /\ Len(articles) >= 2
    /\ articles[1].url # articles[2].url
    /\ ~AllSucceeded

\* This step issues a fetch: the GET of an archive index or of an article.
FetchIssued == \E d \in Dates : IndexFetchIssued(d) \/ ArticleFetchIssued(d)

\* C17: the chunks are taken one at a time in ascending order, the step that
\* goes on to the next chunk is the save_batch call of the current one, and
\* whenever a fetch is issued the save_batch calls of all earlier chunks have
\* completed and no save_batch call is made by the same step.
C17_SaveBeforeNextChunk ==
    [][/\ ci' # ci => (ci' = ci + 1 /\ pc = "save" /\ savedChunks' = ci)
       /\ FetchIssued => (savedChunks = ci - 1 /\ savedChunks' = savedChunks
                           /\ store' = store)]_vars

\* C17's case: a fetch of the second chunk is about to be issued, and the
\* records of the first chunk are on disk.
C17_Witness ==
    /\ pc = "fetch_index"
    /\ ci = 2
    /\ savedChunks = 1
    /\ store # EmptyDir

\* C18: parallel_article_processing returns only when every submitted fetch
\* has finished, and no worker is running a fetch in a step that changes
\* error_log or a file of the store.
C18_NoWorkerRunsAtReturn ==
    [][/\ pc' = "returned" => AllDone'
       /\ error_log' # error_log => Running = 0
       /\ store' # store => Running = 0]_vars

\* C18's case: parallel_article_processing has returned from a call with
\* more than one article fetch, all of them finished.
C18_Witness ==
    /\ pc = "returned"
    /\ Len(futures) >= 2
    /\ \A k \in 1..Len(futures) : futures[k].state = "done"

\* The dates of the chunk that is being processed.
CurrentDates == {CurrentChunk[i] : i \in 1..Len(CurrentChunk)}

\* The row to_csv writes for a record.
RowOf(record) == to_csv(<<record>>)[1]

\* The main thread is inside process_date_chunk, or between its return and
\* the save_batch call.
FetchingChunk ==
    pc \in {"date_loop", "fetch_index", "submit", "collect", "returned",
            "pool_error", "save"}

\* C19: at every point of the processing of a chunk before its save_batch
\* call, the files hold exactly the records the earlier chunks returned: each
\* of them is a row of its date's file, every row is one of them, and there is
\* no row of a date of the current chunk.
C19_CrashKeepsEarlierChunks ==
    FetchingChunk =>
        /\ \A d \in CurrentDates : d \notin DOMAIN store
        /\ \A r \in delivered :
              r.date \notin CurrentDates =>
                  /\ r.date \in DOMAIN store
                  /\ \E i \in 1..Len(store[r.date]) : store[r.date][i] = RowOf(r)
        /\ \A d \in DOMAIN store : \A i \in 1..Len(store[d]) :
              \E r \in delivered : r.date = d /\ store[d][i] = RowOf(r)

\* C19's case: the second chunk has fetched records and its save_batch call
\* has not started; the records of the first chunk are on disk.
C19_Witness ==
    /\ pc = "save"
    /\ ci = 2
    /\ chunk_results # <<>>
    /\ store # EmptyDir

====
